---- MODULE Spec2Model ----
(***************************************************************************)
(* Model of skimage/measure/_marching_cubes_lewiner.py: the wrapper        *)
(* marching_cubes_lewiner (validation, lazy lookup tables, the sweep call, *)
(* post-processing) and _get_mc_luts.  The compiled engine                 *)
(* (_marching_cubes_lewiner_cy: the sweep and remove_degenerate_faces) is  *)
(* modelled from the design description of the engine.                     *)
(*                                                                         *)
(* Numbers.  Python floats are modelled as integers; float32 values are    *)
(* the even integers, so that the float32 conversion of the volume loses   *)
(* precision.  Vertex coordinates are kept doubled (a crossing half-way    *)
(* along a unit edge is the integer 1).                                    *)
(***************************************************************************)
EXTENDS Integers, Sequences, FiniteSets, TLC

VARIABLES
    pc,          \* position of the caller in marching_cubes_lewiner
    args,        \* the arguments of the current call
    volume,      \* local `volume` after np.ascontiguousarray(.., float32)
    level,       \* local `level` after defaulting / float()
    step_size,   \* local `step_size` after int()
    L,           \* local `L`: the table object handed to the sweep (0: none)
    cell,        \* the engine's sweep state (cube counter, mesh, vertex cache)
    vertices,    \* locals vertices, faces, normals, values of the wrapper
    faces,
    normals,
    values,
    result,      \* the returned 4-tuple, <<>> while nothing was returned
    err,         \* the exception raised by the call, "" while none
    work,        \* what the current call has done so far: "luts" (tables
                 \* fetched), "built" (tables constructed), "sweep"
    THE_LUTS,    \* module attribute mcluts.THE_LUTS (0: attribute absent)
    nbuilt,      \* number of LutProvider objects constructed so far
    tpc,         \* position of each concurrent caller inside _get_mc_luts
    tobj,        \* the LutProvider a concurrent caller has constructed
    tL           \* the value _get_mc_luts returned to a concurrent caller

vars == <<pc, args, volume, level, step_size, L, cell, vertices, faces,
          normals, values, result, err, work, THE_LUTS, nbuilt, tpc, tobj, tL>>

callVars == <<pc, args, volume, level, step_size, L, cell, vertices, faces,
              normals, values, result, err, work>>

threadVars == <<tpc, tobj, tL>>

(***************************************************************************)
(* Bounds of the model.                                                    *)
(***************************************************************************)
MaxLen == 5        \* longest grid axis
MaxBuilds == 3     \* cap on the LutProvider construction counter
MaxWorkers == 3    \* concurrent first users of the lookup tables

(***************************************************************************)
(* Lookup tables that ship with the wrapper: local edge number (0..11) to  *)
(* the relative positions of its two end points.                           *)
(***************************************************************************)
EDGETORELATIVEPOSX ==
    << <<0,1>>, <<1,1>>, <<1,0>>, <<0,0>>, <<0,1>>, <<1,1>>, <<1,0>>, <<0,0>>,
       <<0,0>>, <<1,1>>, <<1,1>>, <<0,0>> >>

EDGETORELATIVEPOSY ==
    << <<0,0>>, <<0,1>>, <<1,1>>, <<1,0>>, <<0,0>>, <<0,1>>, <<1,1>>, <<1,0>>,
       <<0,0>>, <<0,0>>, <<1,1>>, <<1,1>> >>

EDGETORELATIVEPOSZ ==
    << <<0,0>>, <<0,0>>, <<0,0>>, <<0,0>>, <<1,1>>, <<1,1>>, <<1,1>>, <<1,1>>,
       <<0,1>>, <<0,1>>, <<0,1>>, <<0,1>> >>

(***************************************************************************)
(* Small helpers.                                                          *)
(***************************************************************************)
Max(a, b) == IF a >= b THEN a ELSE b

Range(f) == {f[i] : i \in DOMAIN f}

SetMin(S) == CHOOSE m \in S : \A x \in S : m <= x

SetMax(S) == CHOOSE m \in S : \A x \in S : m >= x

(***************************************************************************)
(* Inputs.  A volume is [ndarray, shape, data]; data maps index tuples in  *)
(* array order (axis 0, axis 1, axis 2) to samples.                        *)
(***************************************************************************)
Indices(shape) ==
    IF Len(shape) = 3
    THEN {<<i, j, k>> : i \in 0..(shape[1]-1), j \in 0..(shape[2]-1),
                        k \in 0..(shape[3]-1)}
    ELSE {<<i, j>> : i \in 0..(shape[1]-1), j \in 0..(shape[2]-1)}

Uniform(shape, c) == [i \in Indices(shape) |-> c]

OneSpot(shape, base, p, v) == [i \in Indices(shape) |-> IF i = p THEN v ELSE base]

TwoSpot(shape) ==
    [i \in Indices(shape) |->
        IF i = <<0, 0, 0>> THEN 0
        ELSE IF i = <<0, 0, shape[3]-1>> THEN -2 ELSE 2]

Ramp(shape, up) ==
    [i \in Indices(shape) |-> IF up THEN 2 * i[3] ELSE 2 * (shape[3] - 1 - i[3])]

Shapes3 == {<<2, 2, n>> : n \in 2..MaxLen} \cup {<<3, 3, n>> : n \in 3..MaxLen}

SpotPositions(shape) == {<<0, 0, k>> : k \in 0..(shape[3]-1)} \cup {<<1, 1, 1>>}

GridData(shape) ==
    {Uniform(shape, c) : c \in {0, 1, 2}}
    \cup {OneSpot(shape, 0, p, 2) : p \in SpotPositions(shape)}
    \cup {OneSpot(shape, 2, p, 0) : p \in SpotPositions(shape)}
    \cup {Ramp(shape, up) : up \in BOOLEAN}
    \cup (IF shape[3] >= 3 THEN {TwoSpot(shape)} ELSE {})

Volumes ==
    {[ndarray |-> TRUE, shape |-> <<2, 2>>, data |-> Uniform(<<2, 2>>, 0)],
     [ndarray |-> TRUE, shape |-> <<2, 2, 1>>, data |-> Uniform(<<2, 2, 1>>, 0)],
     [ndarray |-> FALSE, shape |-> <<2, 2, 2>>, data |-> Ramp(<<2, 2, 2>>, TRUE)]}
    \cup UNION {{[ndarray |-> TRUE, shape |-> s, data |-> d] : d \in GridData(s)}
                : s \in Shapes3}

\* level: <<>> is None, <<v>> a given number
Levels == {<<>>, <<-1>>, <<0>>, <<1>>, <<2>>}

Spacings ==
    {[form |-> "tuple", items |-> <<1, 1, 1>>],
     [form |-> "list", items |-> <<1, 1, 1>>],
     [form |-> "ndarray", items |-> <<1, 1, 1>>],
     [form |-> "tuple", items |-> <<2, 1, 3>>],
     [form |-> "tuple", items |-> <<1, 1>>]}

GradientDirections == {"descent", "ascent", "sideways"}

\* step_size in tenths: 0.5, 1.0, 2.0
StepSizes == {5, 10, 20}

Args ==
    [volume : Volumes, level : Levels, spacing : Spacings,
     gradient_direction : GradientDirections, step_size : StepSizes,
     allow_degenerate : BOOLEAN, use_classic : BOOLEAN]

NoArgs ==
    [volume |-> [ndarray |-> FALSE, shape |-> <<>>, data |-> <<>>],
     level |-> <<>>, spacing |-> [form |-> "tuple", items |-> <<>>],
     gradient_direction |-> "", step_size |-> 0,
     allow_degenerate |-> TRUE, use_classic |-> FALSE]

(***************************************************************************)
(* Conversions of the wrapper.                                             *)
(***************************************************************************)
\* np.float32 of a Python float: round to the nearest even integer, ties up
ToFloat32(v) == 2 * ((v + 1) \div 2)

\* np.ascontiguousarray(volume, np.float32)
AsFloat32Array(vol) ==
    [vol EXCEPT !.data = [i \in DOMAIN vol.data |-> ToFloat32(vol.data[i])]]

\* int(step_size)
ToInt(tenths) == tenths \div 10

VolMin(vol) == SetMin(Range(vol.data))

VolMax(vol) == SetMax(Range(vol.data))

\* level = 0.5 * (volume.min() + volume.max())
DefaultLevel(vol) == (VolMin(vol) + VolMax(vol)) \div 2

(***************************************************************************)
(* Exceptions.                                                             *)
(***************************************************************************)
ErrNdim == "ValueError: Input volume should be a 3D numpy array."

ErrShape == "ValueError: Input array must be at least 2x2x2."

ErrLevel == "ValueError: Surface level must be within volume data range."

ErrSpacing == "ValueError: spacing must consist of three floats."

ErrStep == "ValueError: step_size must be at least one."

ErrGradient == "ValueError: Incorrect input in gradient_direction, see docstring."

ErrNoSurface == "RuntimeError: No surface found at the given iso value."

ErrTruth == "ValueError: The truth value of an array with more than one element is ambiguous."

\* level < volume.min() or level > volume.max()
LevelOutOfRangeNever(lvl, vol) == FALSE

LevelOutOfRange(lvl, vol) == lvl < VolMin(vol) \/ lvl > VolMax(vol)

\* The checks of the wrapper that run before the tables are fetched, in
\* source order; "" when all pass.
Validate(a) ==
    IF ~a.volume.ndarray \/ Len(a.volume.shape) # 3 THEN ErrNdim
    ELSE IF \E d \in 1..3 : a.volume.shape[d] < 2 THEN ErrShape
    ELSE IF a.level # <<>> /\ LevelOutOfRange(a.level[1], AsFloat32Array(a.volume))
         THEN ErrLevel
    ELSE IF Len(a.spacing.items) # 3 THEN ErrSpacing
    ELSE IF ToInt(a.step_size) < 1 THEN ErrStep
    ELSE ""

(***************************************************************************)
(* The lazily built lookup tables.                                         *)
(***************************************************************************)
\* hasattr(mcluts, 'THE_LUTS')
HasLutsNever(luts) == FALSE

HasLuts(luts) == luts # 0

(***************************************************************************)
(* The engine's sweep (_marching_cubes_lewiner_cy.marching_cubes).  Points *)
(* and vertices of the engine are in x, y, z order; the volume is indexed  *)
(* im[z, y, x].  A cube is named by its minimum corner.                    *)
(***************************************************************************)
NewCell ==
    [k |-> 1, vertices |-> <<>>, faces |-> <<>>, normals |-> <<>>,
     values |-> <<>>, cache |-> <<>>, edges |-> <<>>, hits |-> 0]

\* number of cube positions along an axis of n samples at stride st
AxisCount(n, st) == IF n - st <= 0 THEN 0 ELSE ((n - st - 1) \div st) + 1

NumCubes(shape, st) ==
    AxisCount(shape[3], st) * AxisCount(shape[2], st) * AxisCount(shape[1], st)

\* the k-th cube of the sweep (z outermost, x innermost)
CubeAt(shape, st, k) ==
    LET nx == AxisCount(shape[3], st)
        ny == AxisCount(shape[2], st)
        idx == k - 1
    IN  <<st * (idx % nx), st * ((idx \div nx) % ny), st * (idx \div (nx * ny))>>

\* end point w (1 or 2) of local edge e (0..11) of cube c
EdgeEnd(c, e, st, w) ==
    <<c[1] + st * EDGETORELATIVEPOSX[e + 1][w],
      c[2] + st * EDGETORELATIVEPOSY[e + 1][w],
      c[3] + st * EDGETORELATIVEPOSZ[e + 1][w]>>

Sample(vol, p) == vol.data[<<p[3], p[2], p[1]>>]

\* a corner is inside when its value is above the level; a tie is outside
Above(v, lvl) == v > lvl

\* the edges of cube c on which the surface crosses
CrossingEdges(vol, lvl, c, st) ==
    {e \in 0..11 : Above(Sample(vol, EdgeEnd(c, e, st, 1)), lvl)
                    # Above(Sample(vol, EdgeEnd(c, e, st, 2)), lvl)}

\* the identity of an edge, the same for every cube that has the edge:
\* its lower end point and its axis
EdgeKeyPerCube(c, e, st) == <<c, e>>

EdgeKey(c, e, st) ==
    LET a == EdgeEnd(c, e, st, 1)
        b == EdgeEnd(c, e, st, 2)
    IN  <<IF a[1] + a[2] + a[3] <= b[1] + b[2] + b[3] THEN a ELSE b,
          CHOOSE i \in 1..3 : a[i] # b[i]>>

\* the physical edge: its two end points
PhysicalEdge(c, e, st) == {EdgeEnd(c, e, st, 1), EdgeEnd(c, e, st, 2)}

\* crossing point of the edge a-b, coordinates doubled:
\* t = (level - va) / (vb - va) clamped into [0, 1], midpoint when va = vb
Interpolate(a, b, va, vb, lvl) ==
    LET den == IF vb >= va THEN vb - va ELSE va - vb
        raw == IF vb >= va THEN lvl - va ELSE va - lvl
        num == IF raw < 0 THEN 0 ELSE IF raw > den THEN den ELSE raw
    IN  IF den = 0
        THEN <<a[1] + b[1], a[2] + b[2], a[3] + b[3]>>
        ELSE <<2 * a[1] + (2 * num * (b[1] - a[1])) \div den,
               2 * a[2] + (2 * num * (b[2] - a[2])) \div den,
               2 * a[3] + (2 * num * (b[3] - a[3])) \div den>>

\* the gradient of the field along the edge
EdgeNormal(a, b, va, vb, st) ==
    <<((b[1] - a[1]) \div st) * (vb - va),
      ((b[2] - a[2]) \div st) * (vb - va),
      ((b[3] - a[3]) \div st) * (vb - va)>>

\* the vertex of edge e of cube c: the cached one, else a new one
GetVertex(cl, vol, lvl, c, e, st) ==
    LET key == EdgeKey(c, e, st)
        a == EdgeEnd(c, e, st, 1)
        b == EdgeEnd(c, e, st, 2)
        va == Sample(vol, a)
        vb == Sample(vol, b)
    IN  IF key \in DOMAIN cl.cache
        THEN [cell |-> [cl EXCEPT !.hits = @ + 1], index |-> cl.cache[key]]
        ELSE [cell |-> [cl EXCEPT
                          !.vertices = Append(@, Interpolate(a, b, va, vb, lvl)),
                          !.normals = Append(@, EdgeNormal(a, b, va, vb, st)),
                          !.values = Append(@, Max(va, vb)),
                          !.edges = Append(@, PhysicalEdge(c, e, st)),
                          !.cache = (key :> Len(cl.vertices)) @@ @],
              index |-> Len(cl.vertices)]

RECURSIVE SortedSeq(_)
SortedSeq(S) ==
    IF S = {} THEN <<>> ELSE <<SetMin(S)>> \o SortedSeq(S \ {SetMin(S)})

RECURSIVE ResolveEdges(_, _, _, _, _, _, _)
ResolveEdges(cl, idxs, es, vol, lvl, c, st) ==
    IF es = <<>> THEN [cell |-> cl, idxs |-> idxs]
    ELSE LET r == GetVertex(cl, vol, lvl, c, Head(es), st)
         IN  ResolveEdges(r.cell, Append(idxs, r.index), Tail(es), vol, lvl, c, st)

\* the triangles of a cube over the vertices of its crossing edges, as a
\* flat index list (one triangle for a single separated corner, two for a
\* plane through four edges)
Tiling(idxs) ==
    IF Len(idxs) < 3 THEN <<>>
    ELSE [m \in 1..(3 * (Len(idxs) - 2)) |->
            IF (m - 1) % 3 = 0 THEN idxs[1]
            ELSE idxs[((m - 1) \div 3) + 1 + ((m - 1) % 3)]]

\* one cube of the sweep: classify, resolve the required edges, emit.  The
\* grids of this model give cubes with no surface, one separated corner, two
\* adjacent separated corners or a plane through four edges; none of them
\* is ambiguous, so the classic and the full table give the same tiling.
ProcessCube(cl, vol, lvl, st, classic) ==
    LET c == CubeAt(vol.shape, st, cl.k)
        es == SortedSeq(CrossingEdges(vol, lvl, c, st))
        r == ResolveEdges(cl, <<>>, es, vol, lvl, c, st)
    IN  [r.cell EXCEPT !.faces = @ \o Tiling(r.idxs), !.k = @ + 1]

(***************************************************************************)
(* The engine's DegenerateFaceFilter (remove_degenerate_faces).            *)
(***************************************************************************)
IsDegenerate(v, f) ==
    \/ v[f[1] + 1] = v[f[2] + 1]
    \/ v[f[1] + 1] = v[f[3] + 1]
    \/ v[f[2] + 1] = v[f[3] + 1]

RECURSIVE Compact(_, _, _)
Compact(s, used, i) ==
    IF i > Len(s) THEN <<>>
    ELSE (IF (i - 1) \in used THEN <<s[i]>> ELSE <<>>) \o Compact(s, used, i + 1)

remove_degenerate_faces(v, f, n, s) ==
    LET kept == SelectSeq(f, LAMBDA t : ~IsDegenerate(v, t))
        used == {kept[j][i] : j \in 1..Len(kept), i \in 1..3}
        new(i) == Cardinality({j \in used : j < i})
    IN  <<Compact(v, used, 1),
          [j \in 1..Len(kept) |-> <<new(kept[j][1]), new(kept[j][2]), new(kept[j][3])>>],
          Compact(n, used, 1),
          Compact(s, used, 1)>>

(***************************************************************************)
(* Post-processing of the wrapper.                                         *)
(***************************************************************************)
\* not len(vertices)
IsEmptyNever(v) == FALSE

IsEmpty(v) == Len(v) = 0

\* np.fliplr
fliplr(m) == [i \in 1..Len(m) |-> <<m[i][3], m[i][2], m[i][1]>>]

\* faces.shape = -1, 3
Reshape3(flat) ==
    [i \in 1..(Len(flat) \div 3) |-> <<flat[3*i - 2], flat[3*i - 1], flat[3*i]>>]

\* the winding of the faces for an accepted gradient_direction
WindingSwapped(f, gd) == IF gd = "ascent" THEN fliplr(f) ELSE f

Winding(f, gd) == IF gd = "descent" THEN fliplr(f) ELSE f

\* spacing != (1, 1, 1), as Python evaluates it for each kind of sequence:
\* a tuple compares by items, a list never equals a tuple, an ndarray
\* compares elementwise and has no truth value
SpacingTest(spacing) ==
    CASE spacing.form = "tuple" ->
            IF spacing.items # <<1, 1, 1>> THEN "True" ELSE "False"
      [] spacing.form = "list" -> "True"
      [] spacing.form = "ndarray" -> "ambiguous"

\* vertices * np.r_[spacing]
Scale(v, items) ==
    [i \in 1..Len(v) |-> <<v[i][1] * items[1], v[i][2] * items[2], v[i][3] * items[3]>>]

Spaced(v, spacing) ==
    IF SpacingTest(spacing) = "True" THEN Scale(v, spacing.items) ELSE v

\* the return statement
OutputUnfiltered(allow, v, f, n, s) == <<v, f, n, s>>

Output(allow, v, f, n, s) ==
    IF allow THEN <<v, f, n, s>> ELSE remove_degenerate_faces(v, f, n, s)

(***************************************************************************)
(* The state machine of one caller: marching_cubes_lewiner.                *)
(***************************************************************************)
Workers == 1..MaxWorkers

InitCall ==
    /\ pc = "idle"
    /\ args = NoArgs
    /\ volume = NoArgs.volume
    /\ level = 0
    /\ step_size = 0
    /\ L = 0
    /\ cell = NewCell
    /\ vertices = <<>>
    /\ faces = <<>>
    /\ normals = <<>>
    /\ values = <<>>
    /\ result = <<>>
    /\ err = ""
    /\ work = {}

Init ==
    /\ InitCall
    /\ THE_LUTS = 0
    /\ nbuilt = 0
    /\ tpc = [w \in Workers |-> "off"]
    /\ tobj = [w \in Workers |-> 0]
    /\ tL = [w \in Workers |-> 0]

\* The call and its checks up to the table fetch.
Call ==
    /\ pc = "idle"
    /\ \E a \in Args :
        /\ args' = a
        /\ IF Validate(a) # ""
           THEN /\ pc' = "raised"
                /\ err' = Validate(a)
                /\ UNCHANGED <<volume, level, step_size>>
           ELSE /\ pc' = "getluts"
                /\ err' = ""
                /\ volume' = AsFloat32Array(a.volume)
                /\ level' = IF a.level = <<>>
                            THEN DefaultLevel(AsFloat32Array(a.volume))
                            ELSE a.level[1]
                /\ step_size' = ToInt(a.step_size)
    /\ UNCHANGED <<L, cell, vertices, faces, normals, values, result, work,
                   THE_LUTS, nbuilt, threadVars>>

\* L = _get_mc_luts(), run by a single caller
GetLuts ==
    /\ pc = "getluts"
    /\ HasLuts(THE_LUTS) \/ nbuilt < MaxBuilds
    /\ IF HasLuts(THE_LUTS)
       THEN /\ L' = THE_LUTS
            /\ UNCHANGED <<THE_LUTS, nbuilt>>
       ELSE /\ nbuilt' = nbuilt + 1
            /\ THE_LUTS' = nbuilt + 1
            /\ L' = nbuilt + 1
    /\ work' = work \cup (IF HasLuts(THE_LUTS) THEN {"luts"} ELSE {"luts", "built"})
    /\ cell' = NewCell
    /\ pc' = "sweep"
    /\ UNCHANGED <<args, volume, level, step_size, vertices, faces, normals,
                   values, result, err, threadVars>>

\* the sweep visits its next cube
SweepCube ==
    /\ pc = "sweep"
    /\ cell.k <= NumCubes(volume.shape, step_size)
    /\ cell' = ProcessCube(cell, volume, level, step_size, args.use_classic)
    /\ work' = work \cup {"sweep"}
    /\ UNCHANGED <<pc, args, volume, level, step_size, L, vertices, faces,
                   normals, values, result, err, THE_LUTS, nbuilt, threadVars>>

\* the sweep has visited every cube: vertices, faces, normals, values = func(..)
SweepEnd ==
    /\ pc = "sweep"
    /\ cell.k > NumCubes(volume.shape, step_size)
    /\ vertices' = cell.vertices
    /\ faces' = cell.faces
    /\ normals' = cell.normals
    /\ values' = cell.values
    /\ work' = work \cup {"sweep"}
    /\ pc' = "swept"
    /\ UNCHANGED <<args, volume, level, step_size, L, cell, result, err,
                   THE_LUTS, nbuilt, threadVars>>

\* everything after the sweep: the empty check, axis flip, winding, spacing
\* and the return
Finish ==
    /\ pc = "swept"
    /\ IF IsEmpty(vertices)
       THEN /\ pc' = "raised"
            /\ err' = ErrNoSurface
            /\ UNCHANGED <<vertices, faces, normals, values, result>>
       ELSE IF args.gradient_direction \notin {"descent", "ascent"}
       THEN /\ pc' = "raised"
            /\ err' = ErrGradient
            /\ vertices' = fliplr(vertices)
            /\ normals' = fliplr(normals)
            /\ faces' = Reshape3(faces)
            /\ UNCHANGED <<values, result>>
       ELSE IF SpacingTest(args.spacing) = "ambiguous"
       THEN /\ pc' = "raised"
            /\ err' = ErrTruth
            /\ vertices' = fliplr(vertices)
            /\ normals' = fliplr(normals)
            /\ faces' = Winding(Reshape3(faces), args.gradient_direction)
            /\ UNCHANGED <<values, result>>
       ELSE /\ pc' = "returned"
            /\ err' = ""
            /\ vertices' = Spaced(fliplr(vertices), args.spacing)
            /\ normals' = fliplr(normals)
            /\ faces' = Winding(Reshape3(faces), args.gradient_direction)
            /\ result' = Output(args.allow_degenerate,
                                Spaced(fliplr(vertices), args.spacing),
                                Winding(Reshape3(faces), args.gradient_direction),
                                fliplr(normals), values)
            /\ UNCHANGED values
    /\ UNCHANGED <<args, volume, level, step_size, L, cell, work, THE_LUTS,
                   nbuilt, threadVars>>

\* the caller has taken the outcome; the frame of the call is gone
Discard ==
    /\ pc \in {"returned", "raised"}
    /\ pc' = "idle"
    /\ args' = NoArgs
    /\ volume' = NoArgs.volume
    /\ level' = 0
    /\ step_size' = 0
    /\ L' = 0
    /\ cell' = NewCell
    /\ vertices' = <<>>
    /\ faces' = <<>>
    /\ normals' = <<>>
    /\ values' = <<>>
    /\ result' = <<>>
    /\ err' = ""
    /\ work' = {}
    /\ UNCHANGED <<THE_LUTS, nbuilt, threadVars>>

Next == Call \/ GetLuts \/ SweepCube \/ SweepEnd \/ Finish \/ Discard

Spec == Init /\ [][Next]_vars

(***************************************************************************)
(* Concurrent first use of the tables: each worker runs _get_mc_luts, one  *)
(* statement at a time.                                                    *)
(***************************************************************************)
InitConc ==
    /\ InitCall
    /\ THE_LUTS = 0
    /\ nbuilt = 0
    /\ tpc = [w \in Workers |-> "test"]
    /\ tobj = [w \in Workers |-> 0]
    /\ tL = [w \in Workers |-> 0]

\* if not hasattr(mcluts, 'THE_LUTS'):
LutsTest(w) ==
    /\ tpc[w] = "test"
    /\ tpc' = [tpc EXCEPT ![w] = IF HasLuts(THE_LUTS) THEN "return" ELSE "build"]
    /\ UNCHANGED <<callVars, THE_LUTS, nbuilt, tobj, tL>>

\* _marching_cubes_lewiner_cy.LutProvider(...)
LutsBuild(w) ==
    /\ tpc[w] = "build"
    /\ nbuilt' = nbuilt + 1
    /\ tobj' = [tobj EXCEPT ![w] = nbuilt + 1]
    /\ tpc' = [tpc EXCEPT ![w] = "store"]
    /\ UNCHANGED <<callVars, THE_LUTS, tL>>

\* mcluts.THE_LUTS = <the new object>
LutsStore(w) ==
    /\ tpc[w] = "store"
    /\ THE_LUTS' = tobj[w]
    /\ tpc' = [tpc EXCEPT ![w] = "return"]
    /\ UNCHANGED <<callVars, nbuilt, tobj, tL>>

\* return mcluts.THE_LUTS
LutsReturn(w) ==
    /\ tpc[w] = "return"
    /\ tL' = [tL EXCEPT ![w] = THE_LUTS]
    /\ tpc' = [tpc EXCEPT ![w] = "done"]
    /\ UNCHANGED <<callVars, THE_LUTS, nbuilt, tobj>>

NextConc ==
    \E w \in Workers : LutsTest(w) \/ LutsBuild(w) \/ LutsStore(w) \/ LutsReturn(w)

SpecConc == InitConc /\ [][NextConc]_vars

(***************************************************************************)
(* Properties.                                                             *)
(***************************************************************************)
Finished == pc \in {"returned", "raised"}

ValidGradient == args.gradient_direction \in {"descent", "ascent"}

\* the call violates one of the input checks of the interface
ViolatesCheck ==
    /\ args # NoArgs
    /\ Validate(args) # "" \/ ~ValidGradient

\* C1: a call whose input violates a validation check (rank, size, level
\* range, spacing length, step size, gradient direction) never fetches the
\* tables nor invokes the sweep.
C1_FailFast == ViolatesCheck => work = {}

\* C2: a sweep that produced no triangle ends the call with the
\* no-surface error and no mesh; post-processing (a returned mesh, or an
\* error raised after the empty check) is reached only with a triangle.
C2_NoSurface ==
    /\ (Finished /\ "sweep" \in work /\ Len(cell.faces) = 0)
          => (err = ErrNoSurface /\ result = <<>>)
    /\ (pc = "returned" \/ err \in {ErrGradient, ErrTruth})
          => Len(cell.faces) >= 3

C2_Witness ==
    /\ pc = "raised"
    /\ err = ErrNoSurface
    /\ ValidGradient
    /\ "sweep" \in work
    /\ cell.k > 1
    /\ cell.faces = <<>>

UniformCall ==
    /\ args.volume.ndarray
    /\ Len(args.volume.shape) = 3
    /\ \A d \in 1..3 : args.volume.shape[d] >= 2
    /\ Cardinality(Range(args.volume.data)) = 1

UniformValue == CHOOSE c \in Range(args.volume.data) : TRUE

\* C3 as stated: on a uniform grid of value c a level strictly above or
\* below c yields no triangle and no mesh, and a level above c ends with
\* the no-surface error.
C3_Original ==
    (Finished /\ UniformCall /\ args.level # <<>> /\ args.level[1] # UniformValue)
       => /\ result = <<>>
          /\ cell.faces = <<>>
          /\ args.level[1] > UniformValue => err = ErrNoSurface

\* C3 amended: on a uniform grid no mesh is returned and no triangle is
\* produced; a level strictly above or below the stored (float32) grid
\* value is rejected by the level-range check before the tables and the
\* sweep are touched; the no-surface error arises only for an omitted level
\* or one equal to the stored value.
C3_UniformGrid ==
    (Finished /\ UniformCall)
       => /\ result = <<>>
          /\ cell.faces = <<>>
          /\ (args.level # <<>> /\ args.level[1] # ToFloat32(UniformValue))
                => (err = ErrLevel /\ work = {})
          /\ err = ErrNoSurface
                => (args.level = <<>> \/ args.level[1] = ToFloat32(UniformValue))

C3_Witness ==
    /\ pc = "raised"
    /\ UniformCall
    /\ args.level # <<>>
    /\ args.level[1] > ToFloat32(UniformValue)
    /\ err = ErrLevel

\* C4: a returned mesh has as many faces as the sweep emitted, in the same
\* order, each reversed (c, b, a) under "descent" and as emitted (a, b, c)
\* under "ascent"; with allow_degenerate these are the returned faces; any
\* other gradient direction returns no mesh.
C4_Winding ==
    /\ pc = "returned" =>
          /\ 3 * Len(faces) = Len(cell.faces)
          /\ \A i \in 1..Len(faces) :
                /\ args.gradient_direction = "descent" =>
                      faces[i] = <<cell.faces[3*i], cell.faces[3*i - 1], cell.faces[3*i - 2]>>
                /\ args.gradient_direction = "ascent" =>
                      faces[i] = <<cell.faces[3*i - 2], cell.faces[3*i - 1], cell.faces[3*i]>>
          /\ args.allow_degenerate => result[2] = faces
    /\ (args # NoArgs /\ ~ValidGradient) => (pc # "returned" /\ result = <<>>)

C4_Witness ==
    /\ pc = "returned"
    /\ args.gradient_direction = "descent"
    /\ Len(faces) >= 2
    /\ faces[2][1] # faces[2][3]
    /\ faces[2] = <<cell.faces[6], cell.faces[5], cell.faces[4]>>

\* C5: a call with accepted inputs and a non-empty sweep returns vertices
\* equal to the sweep's vertices in grid-axis order scaled component-wise
\* by the spacing, with normals, values and faces untouched by the spacing.
C5_Spacing ==
    (Finished /\ args # NoArgs /\ ~ViolatesCheck /\ cell.vertices # <<>>)
       => /\ pc = "returned"
          /\ Len(vertices) = Len(cell.vertices)
          /\ \A i \in 1..Len(vertices) :
                vertices[i] = <<cell.vertices[i][3] * args.spacing.items[1],
                                cell.vertices[i][2] * args.spacing.items[2],
                                cell.vertices[i][1] * args.spacing.items[3]>>
          /\ values = cell.values

\* C6: concurrent first users construct the tables once and all receive
\* the same object.
C6_BuiltOnce ==
    /\ nbuilt <= 1
    /\ \A v, w \in Workers : (tpc[v] = "done" /\ tpc[w] = "done") => tL[v] = tL[w]

\* C7: over sequential calls the tables are constructed at most once, only
\* by the table fetch of a call that passed its checks; once cached the
\* object is never replaced, and every call is handed the cached object.
C7_BuiltOnceCached ==
    /\ [](/\ nbuilt <= 1
          /\ (nbuilt = 0) <=> (THE_LUTS = 0)
          /\ "luts" \in work => (L = THE_LUTS /\ L # 0))
    /\ [][/\ THE_LUTS # 0 => THE_LUTS' = THE_LUTS
          /\ nbuilt' # nbuilt => (pc = "getluts" /\ pc' = "sweep" /\ THE_LUTS = 0)]_vars

C7_Witness ==
    /\ "luts" \in work
    /\ "built" \notin work
    /\ L = THE_LUTS
    /\ nbuilt = 1

Distinct3(v, f) ==
    /\ v[f[1] + 1] # v[f[2] + 1]
    /\ v[f[1] + 1] # v[f[3] + 1]
    /\ v[f[2] + 1] # v[f[3] + 1]

\* the j-th smallest element of a set of numbers
Nth(S, j) == CHOOSE x \in S : Cardinality({y \in S : y < x}) = j - 1

\* C8: with allow_degenerate the post-processed mesh is returned as it is;
\* without it the returned mesh holds, in their original order, exactly the
\* triangles with three distinct corner positions and the vertices they
\* use, renumbered 0..V'-1 without gaps, normals and values following the
\* vertices.
C8_Filter ==
    pc = "returned" =>
       IF args.allow_degenerate
       THEN result = <<vertices, faces, normals, values>>
       ELSE LET rv == result[1]
                rf == result[2]
                rn == result[3]
                rs == result[4]
                keptF == {i \in 1..Len(faces) : Distinct3(vertices, faces[i])}
                keptV == {faces[i][c] : i \in keptF, c \in 1..3}
            IN  /\ \A j \in 1..Len(rf) : Distinct3(rv, rf[j])
                /\ {rf[j][c] : j \in 1..Len(rf), c \in 1..3} = 0..(Len(rv) - 1)
                /\ Len(rn) = Len(rv)
                /\ Len(rs) = Len(rv)
                /\ Len(rv) = Cardinality(keptV)
                /\ \A j \in 1..Len(rv) :
                      /\ rv[j] = vertices[Nth(keptV, j) + 1]
                      /\ rn[j] = normals[Nth(keptV, j) + 1]
                      /\ rs[j] = values[Nth(keptV, j) + 1]
                /\ Len(rf) = Cardinality(keptF)
                /\ \A j \in 1..Len(rf) : \A c \in 1..3 :
                      Nth(keptV, rf[j][c] + 1) = faces[Nth(keptF, j)][c]

C8_Witness ==
    /\ pc = "returned"
    /\ ~args.allow_degenerate
    /\ Len(result[2]) > 0
    /\ Len(result[2]) < Len(faces)
    /\ result[2][1] # faces[2]

\* C9: at every point of the sweep no two vertices lie on the same
\* physical edge, and every crossing edge of every cube visited so far has
\* its vertex, so cubes sharing an edge share its vertex.
C9_OneVertexPerEdge ==
    /\ Len(cell.edges) = Len(cell.vertices)
    /\ \A i, j \in 1..Len(cell.edges) : i # j => cell.edges[i] # cell.edges[j]
    /\ "luts" \in work =>
          \A q \in 1..(cell.k - 1) :
             \A e \in CrossingEdges(volume, level, CubeAt(volume.shape, step_size, q), step_size) :
                \E i \in 1..Len(cell.edges) :
                   cell.edges[i] = PhysicalEdge(CubeAt(volume.shape, step_size, q), e, step_size)

C9_Witness ==
    /\ pc = "sweep"
    /\ step_size = 2
    /\ cell.hits > 0

\* C10: no returned mesh has zero faces.
C10_NeverEmpty == pc = "returned" => Len(result[2]) > 0

====
